---- MODULE Spec2Model ----
(***************************************************************************)
(* Zimbabwe crime dashboard (app.py): one Streamlit script run, top to     *)
(* bottom, as a state machine.  A frame is a table of rows; the pandas     *)
(* operations the script applies to it are operators over sequences.       *)
(***************************************************************************)
EXTENDS Integers, Sequences, FiniteSets, TLC

\* Bounds of the model.
MaxRecords == 2
MaxCount == 3

(***************************************************************************)
(* Values                                                                  *)
(***************************************************************************)
TS(y, m, d, h) == [year |-> y, month |-> m, day |-> d, hour |-> h]

CrimeTypes == {"Theft", "Assault"}
DistrictNames == {"Harare", "Bulawayo"}
Stamps == {TS(2025, 12, 31, 18), TS(2026, 1, 1, 0), TS(2026, 2, 1, 9)}

Row(t, c, d) == [Date |-> t, Crime_Type |-> c, District |-> d]
Rows == {Row(t, c, d) : t \in Stamps, c \in CrimeTypes, d \in DistrictNames}

\* A DataFrame: the rows and the dtype read_csv gave the Date column.
Frame(rs) == [Date_dtype |-> "datetime64", rows |-> rs]
EmptyFrame == Frame(<<>>)
None == [some |-> FALSE, frame |-> EmptyFrame]
Some(f) == [some |-> TRUE, frame |-> f]

(***************************************************************************)
(* pandas helpers                                                          *)
(***************************************************************************)
\* Series.dt.date / Timestamp.date(): the calendar day, time-of-day dropped.
DtDate(t) == <<t.year, t.month, t.day>>

DateLE(a, b) ==
    \/ a[1] < b[1]
    \/ a[1] = b[1] /\ a[2] < b[2]
    \/ a[1] = b[1] /\ a[2] = b[2] /\ a[3] <= b[3]

StampLE(a, b) ==
    \/ DtDate(a) # DtDate(b) /\ DateLE(DtDate(a), DtDate(b))
    \/ DtDate(a) = DtDate(b) /\ a.hour <= b.hour

\* Series.min() / Series.max() of the Date column (the frame is not empty).
MinStamp(rs) ==
    CHOOSE t \in {rs[i].Date : i \in 1..Len(rs)} :
        \A i \in 1..Len(rs) : StampLE(t, rs[i].Date)

MaxStamp(rs) ==
    CHOOSE t \in {rs[i].Date : i \in 1..Len(rs)} :
        \A i \in 1..Len(rs) : StampLE(rs[i].Date, t)

\* Series.unique() / Series.nunique().
UniqueOf(rs, col) == {rs[i][col] : i \in 1..Len(rs)}
NUnique(rs, col) == Cardinality(UniqueOf(rs, col))

\* Comparing a Timestamp column with the chosen days instead of its .dt.date:
\* a day bound then stands for its midnight.
DateBetween_stamp(t, lo, hi) ==
    /\ StampLE(TS(lo[1], lo[2], lo[3], 0), t)
    /\ StampLE(t, TS(hi[1], hi[2], hi[3], 0))

\* df["Date"].dt.date.between(start, end): inclusive on both ends.
DateBetween(t, lo, hi) == DateLE(lo, DtDate(t)) /\ DateLE(DtDate(t), hi)

\* The mask without the District.isin(districts) term.
MaskRow_noisin(r, lo, hi, cat, dists) ==
    /\ DateBetween(r.Date, lo, hi)
    /\ (cat # "All" => r.Crime_Type = cat)

\* One element of the boolean mask.
MaskRow(r, lo, hi, cat, dists) ==
    /\ DateBetween(r.Date, lo, hi)
    /\ r.District \in dists
    /\ (cat # "All" => r.Crime_Type = cat)

\* df[mask]
ApplyMask(rs, lo, hi, cat, dists) ==
    SelectSeq(rs, LAMBDA r : MaskRow(r, lo, hi, cat, dists))

\* Number of rows of rs for which col has value v.
CountWhere(rs, col, v) == Cardinality({i \in 1..Len(rs) : rs[i][col] = v})

(***************************************************************************)
(* groupby(pd.Grouper(key="Date", freq="ME")).size().reset_index("Count")  *)
(***************************************************************************)
IsLeap(y) == (y % 4 = 0 /\ y % 100 # 0) \/ y % 400 = 0

DaysInMonth(y, m) ==
    IF m = 2 THEN (IF IsLeap(y) THEN 29 ELSE 28)
    ELSE IF m \in {4, 6, 9, 11} THEN 30 ELSE 31

\* The month-end label of the bin holding (y, m).
MonthEnd(y, m) == TS(y, m, DaysInMonth(y, m), 0)

NextMonth(ym) == IF ym[2] = 12 THEN <<ym[1] + 1, 1>> ELSE <<ym[1], ym[2] + 1>>

MonthOf(t) == <<t.year, t.month>>

RowsInMonth(rs, ym) == Cardinality({i \in 1..Len(rs) : MonthOf(rs[i].Date) = ym})

RECURSIVE MonthBins(_, _, _)
MonthBins(rs, ym, last) ==
    LET bin == [Date |-> MonthEnd(ym[1], ym[2]), Count |-> RowsInMonth(rs, ym)]
    IN IF ym = last THEN <<bin>>
       ELSE <<bin>> \o MonthBins(rs, NextMonth(ym), last)

\* Grouping that keeps only the months holding a row.
GroupByMonth_observed(rs) ==
    IF rs = <<>> THEN <<>>
    ELSE SelectSeq(MonthBins(rs, MonthOf(MinStamp(rs)), MonthOf(MaxStamp(rs))),
                   LAMBDA b : b.Count > 0)

\* One bin per calendar month from the first row's month to the last row's.
GroupByMonth(rs) ==
    IF rs = <<>> THEN <<>>
    ELSE MonthBins(rs, MonthOf(MinStamp(rs)), MonthOf(MaxStamp(rs)))

\* Series.value_counts().reset_index(name="Count")
ValueCounts(rs, col) ==
    {[key |-> v, Count |-> CountWhere(rs, col, v)] : v \in UniqueOf(rs, col)}

\* groupby(col).size().reset_index(name="Count")
GroupSize(rs, col) ==
    {[key |-> v, Count |-> CountWhere(rs, col, v)] : v \in UniqueOf(rs, col)}

(***************************************************************************)
(* Forecast helpers                                                        *)
(***************************************************************************)
\* Rationals are pairs <<numerator, denominator>> with denominator > 0.
RatEq(p, q) == p[1] * q[2] = q[1] * p[2]

\* f"{pred:.0f}": the nearest integer, ties to the even one.
Round0(p) ==
    LET q == p[1] \div p[2]
        r == p[1] - q * p[2]
    IN IF 2 * r < p[2] THEN q
       ELSE IF 2 * r > p[2] THEN q + 1
       ELSE IF q % 2 = 0 THEN q ELSE q + 1

RECURSIVE SumOver(_, _)
SumOver(s, col) == IF s = <<>> THEN 0 ELSE s[1][col] + SumOver(Tail(s), col)

\* df[df["District"] == pdist]
DistrictRows(rs, pd) == SelectSeq(rs, LAMBDA r : r.District = pd)

\* Forecasting from the filtered view instead of the full frame.
ForecastFrame_filtered(dfrows, filteredrows) == filteredrows

\* The frame the forecast block reads: df, the full dataset.
ForecastFrame(dfrows, filteredrows) == dfrows

\* hist["Mnum"] = hist["Date"].dt.year*12 + hist["Date"].dt.month
WithMnum(h) ==
    [i \in 1..Len(h) |->
        [Date |-> h[i].Date, Count |-> h[i].Count,
         Mnum |-> h[i].Date.year * 12 + h[i].Date.month]]

\* LinearRegression().fit(hist[["Mnum"]], hist["Count"]): least squares on the
\* centred data.  With n points, dx = n*x - Sx and dy = n*y - Sy are n times the
\* centred values, so coef = sum(dx*dy) / sum(dx*dx).
Fit(h) ==
    LET n == Len(h)
        Sx == SumOver(h, "Mnum")
        Sy == SumOver(h, "Count")
        c == [i \in 1..n |->
                [dxx |-> (n * h[i].Mnum - Sx) * (n * h[i].Mnum - Sx),
                 dxy |-> (n * h[i].Mnum - Sx) * (n * h[i].Count - Sy)]]
    IN [n |-> n, Sx |-> Sx, Sy |-> Sy,
        Sdxx |-> SumOver(c, "dxx"), Sdxy |-> SumOver(c, "dxy")]

\* model.predict([[x]])[0] = y_mean + coef * (x - x_mean)
Predict(m, x) ==
    <<m.Sy * m.Sdxx + m.Sdxy * (m.n * x - m.Sx), m.n * m.Sdxx>>

\* Anchoring the prediction to the district's own last month.
NextMonthIndex_district(dfrows, h) == h[Len(h)].Mnum + 1

\* nm = df["Date"].max().year*12 + df["Date"].max().month + 1
NextMonthIndex(dfrows, h) ==
    MaxStamp(dfrows).year * 12 + MaxStamp(dfrows).month + 1

\* The test on the history failing to count its first two months as enough.
EnoughHistory_three(h) == Len(h) > 2

\* if len(hist) > 1
EnoughHistory(h) == Len(h) > 1

Unavailable == [kind |-> "unavailable", pred |-> <<0, 1>>, shown |-> 0]

\* Lines 153-159 for the chosen district.
ForecastOf(dfrows, filteredrows, pd) ==
    LET h == GroupByMonth(DistrictRows(ForecastFrame(dfrows, filteredrows), pd))
        hm == WithMnum(h)
        p == Predict(Fit(hm), NextMonthIndex(dfrows, hm))
    IN [hist |-> IF EnoughHistory(h) THEN hm ELSE h,
        out |-> IF EnoughHistory(h)
                THEN [kind |-> "pred", pred |-> p, shown |-> Round0(p)]
                ELSE Unavailable]

(***************************************************************************)
(* State                                                                   *)
(***************************************************************************)
VARIABLES
    defaultFile,        \* crime_data.csv: [exists, frame]
    cache,              \* st.cache_data of load_data: None or Some(frame)
    SKLEARN_AVAILABLE,  \* whether sklearn could be imported
    pc,                 \* position of the script run
    uploaded_file,      \* what the sidebar uploader holds
    uploaded_df,        \* result of upload_csv()
    sidebar,            \* messages written to the sidebar, in order
    df,                 \* the frame in use
    start, end, category, districts,    \* the filter widgets' values
    filtered,           \* df[mask]
    tot, ucat, dud,     \* the three metrics
    fig_ts, fig_pie, fig_bar, fig_map,  \* the data behind the four charts
    figIdx,             \* generate_pdf: index of the figure being embedded
    pages,              \* generate_pdf: pages of the document so far
    tmpFiles,           \* temporary files present on disk
    tmpHandle,          \* index of the open temporary file handle, 0 if none
    exc,                \* generate_pdf: the exception being raised, "" if none
    stErrors,           \* st.error calls, in order
    pdf_bytes,          \* what generate_pdf returned
    pdist,              \* district chosen for the forecast
    hist,               \* the district's monthly history
    forecast            \* the forecast outcome

sessionVars == <<defaultFile, cache, SKLEARN_AVAILABLE>>
loadVars == <<uploaded_file, uploaded_df, sidebar, df>>
filterVars == <<start, end, category, districts, filtered>>
aggVars == <<tot, ucat, dud, fig_ts, fig_pie, fig_bar, fig_map>>
pdfVars == <<figIdx, pages, tmpFiles, tmpHandle, exc, stErrors, pdf_bytes>>
forecastVars == <<pdist, hist, forecast>>
vars == <<sessionVars, pc, loadVars, filterVars, aggVars, pdfVars, forecastVars>>

NoDate == <<0, 0, 0>>
NoPdf == [some |-> FALSE, pages |-> <<>>]
NoForecast == [kind |-> "none", pred |-> <<0, 1>>, shown |-> 0]

\* figs = [fig_ts, fig_pie, fig_bar, fig_map]
Figs == <<"fig_ts", "fig_pie", "fig_bar", "fig_map">>

\* The values of a run's variables before the script has assigned them.
FreshFilter ==
    /\ start = NoDate /\ end = NoDate /\ category = "" /\ districts = {}
    /\ filtered = <<>>

FreshAgg ==
    /\ tot = 0 /\ ucat = 0 /\ dud = 0
    /\ fig_ts = <<>> /\ fig_pie = {} /\ fig_bar = {} /\ fig_map = <<>>

FreshPdf ==
    /\ figIdx = 0 /\ pages = <<>> /\ tmpFiles = {} /\ tmpHandle = 0
    /\ exc = "" /\ stErrors = <<>> /\ pdf_bytes = NoPdf

FreshForecast == pdist = "" /\ hist = <<>> /\ forecast = NoForecast

(***************************************************************************)
(* Files of the session                                                    *)
(***************************************************************************)
\* A CSV whose Date strings do not parse: read_csv returns the column as object.
ObjectDates(rs) == [Date_dtype |-> "object", rows |-> rs]

UploadA ==
    Frame(<<Row(TS(2025, 12, 31, 18), "Theft", "Harare"),
            Row(TS(2026, 2, 1, 9), "Assault", "Harare")>>)

DefaultA ==
    Frame(<<Row(TS(2026, 1, 1, 0), "Theft", "Harare"),
            Row(TS(2026, 1, 1, 0), "Theft", "Bulawayo")>>)

\* What the uploader can hold: no file, a file read_csv raises on, or a file
\* it reads.
NoFile == [present |-> FALSE, raises |-> FALSE, frame |-> EmptyFrame]

UploadedFiles ==
    {NoFile, [present |-> TRUE, raises |-> TRUE, frame |-> EmptyFrame]}
    \cup {[present |-> TRUE, raises |-> FALSE, frame |-> f] :
            f \in {UploadA, EmptyFrame, ObjectDates(UploadA.rows)}}

DefaultFiles ==
    {[exists |-> FALSE, frame |-> EmptyFrame], [exists |-> TRUE, frame |-> DefaultA]}

(***************************************************************************)
(* Loading (lines 29-56)                                                   *)
(***************************************************************************)
\* upload_csv() and its assignment to uploaded_df.
upload_csv ==
    /\ pc = "upload"
    /\ \E f \in UploadedFiles :
        /\ uploaded_file' = f
        /\ IF f.present /\ ~f.raises
           THEN /\ uploaded_df' = Some(f.frame)
                /\ sidebar' = Append(sidebar, "success")
           ELSE /\ uploaded_df' = None
                /\ sidebar' = IF f.present THEN Append(sidebar, "error_loading")
                              ELSE sidebar
    /\ pc' = "select"
    /\ UNCHANGED <<sessionVars, df, filterVars, aggVars, pdfVars, forecastVars>>

\* if uploaded_df is not None
UseUpload(u) == u.some

\* df = uploaded_df, or df = load_data(): the cached frame, else the file read
\* (an unreadable file raises and ends the run).
select_df ==
    /\ pc = "select"
    /\ IF UseUpload(uploaded_df)
       THEN /\ df' = uploaded_df.frame
            /\ pc' = "filters"
            /\ UNCHANGED cache
       ELSE IF cache.some
       THEN /\ df' = cache.frame
            /\ pc' = "filters"
            /\ UNCHANGED cache
       ELSE IF defaultFile.exists
       THEN /\ df' = defaultFile.frame
            /\ cache' = Some(defaultFile.frame)
            /\ pc' = "filters"
       ELSE /\ pc' = "crashed"
            /\ UNCHANGED <<df, cache>>
    /\ UNCHANGED <<defaultFile, SKLEARN_AVAILABLE, uploaded_file, uploaded_df,
                   sidebar, filterVars, aggVars, pdfVars, forecastVars>>

(***************************************************************************)
(* Filters (lines 59-75)                                                   *)
(***************************************************************************)
\* The days the date pickers offer: those between min_date and max_date.
DateChoices(rs) ==
    {d \in {DtDate(t) : t \in Stamps} :
        DateLE(DtDate(MinStamp(rs)), d) /\ DateLE(d, DtDate(MaxStamp(rs)))}

\* The sidebar widgets.  df["Date"].min().date() raises on an empty frame and
\* on a Date column that is not a datetime, which ends the run.
filter_widgets ==
    /\ pc = "filters"
    /\ IF df.Date_dtype # "datetime64" \/ df.rows = <<>>
       THEN /\ pc' = "crashed"
            /\ UNCHANGED filterVars
       ELSE /\ start' \in DateChoices(df.rows)
            /\ end' \in DateChoices(df.rows)
            /\ category' \in {"All"} \cup UniqueOf(df.rows, "Crime_Type")
            /\ districts' \in SUBSET UniqueOf(df.rows, "District")
            /\ pc' = "mask"
            /\ UNCHANGED filtered
    /\ UNCHANGED <<sessionVars, loadVars, aggVars, pdfVars, forecastVars>>

\* mask and filtered = df[mask]
apply_mask ==
    /\ pc = "mask"
    /\ filtered' = ApplyMask(df.rows, start, end, category, districts)
    /\ pc' = "metrics"
    /\ UNCHANGED <<sessionVars, loadVars, start, end, category, districts,
                   aggVars, pdfVars, forecastVars>>

(***************************************************************************)
(* Metrics and charts (lines 78-114)                                       *)
(***************************************************************************)
metrics ==
    /\ pc = "metrics"
    /\ tot' = Len(filtered)
    /\ ucat' = NUnique(filtered, "Crime_Type")
    /\ dud' = NUnique(filtered, "District")
    /\ pc' = "ts"
    /\ UNCHANGED <<sessionVars, loadVars, filterVars, fig_ts, fig_pie, fig_bar,
                   fig_map, pdfVars, forecastVars>>

time_series ==
    /\ pc = "ts"
    /\ fig_ts' = GroupByMonth(filtered)
    /\ pc' = "pie"
    /\ UNCHANGED <<sessionVars, loadVars, filterVars, tot, ucat, dud, fig_pie,
                   fig_bar, fig_map, pdfVars, forecastVars>>

pie_chart ==
    /\ pc = "pie"
    /\ fig_pie' = ValueCounts(filtered, "Crime_Type")
    /\ pc' = "bar"
    /\ UNCHANGED <<sessionVars, loadVars, filterVars, tot, ucat, dud, fig_ts,
                   fig_bar, fig_map, pdfVars, forecastVars>>

bar_chart ==
    /\ pc = "bar"
    /\ fig_bar' = GroupSize(filtered, "District")
    /\ pc' = "map"
    /\ UNCHANGED <<sessionVars, loadVars, filterVars, tot, ucat, dud, fig_ts,
                   fig_pie, fig_map, pdfVars, forecastVars>>

map_chart ==
    /\ pc = "map"
    /\ fig_map' = filtered
    /\ pc' = "export"
    /\ UNCHANGED <<sessionVars, loadVars, filterVars, tot, ucat, dud, fig_ts,
                   fig_pie, fig_bar, pdfVars, forecastVars>>

(***************************************************************************)
(* PDF export (lines 117-147)                                              *)
(***************************************************************************)
notPdf == <<sessionVars, loadVars, filterVars, aggVars, forecastVars>>

\* if st.sidebar.button("Export Dashboard as PDF")
export_button ==
    /\ pc = "export"
    /\ \E clicked \in BOOLEAN :
        pc' = IF clicked THEN "pdf_title" ELSE "forecast"
    /\ UNCHANGED <<notPdf, pdfVars>>

\* Lines 118-128: the document and its title page with the three metrics.
pdf_title ==
    /\ pc = "pdf_title"
    /\ pages' = <<[kind |-> "title", fig |-> "", image |-> FALSE,
                   text |-> <<tot, ucat, dud>>]>>
    /\ figIdx' = 1
    /\ pc' = "pdf_loop"
    /\ UNCHANGED <<notPdf, tmpFiles, tmpHandle, exc, stErrors, pdf_bytes>>

\* Lines 130-131: the next figure, and its NamedTemporaryFile(delete=False).
pdf_loop ==
    /\ pc = "pdf_loop"
    /\ IF figIdx > Len(Figs)
       THEN /\ pc' = "pdf_return"
            /\ UNCHANGED <<tmpFiles, tmpHandle>>
       ELSE /\ tmpFiles' = tmpFiles \cup {[name |-> figIdx, content |-> "empty"]}
            /\ tmpHandle' = figIdx
            /\ pc' = "pdf_write"
    /\ UNCHANGED <<notPdf, figIdx, pages, exc, stErrors, pdf_bytes>>

\* Line 133: fig.write_image(tmp.name), which may raise.
pdf_write_image ==
    /\ pc = "pdf_write"
    /\ \E ok \in BOOLEAN :
        IF ok
        THEN /\ tmpFiles' = (tmpFiles \ {[name |-> figIdx, content |-> "empty"]})
                                \cup {[name |-> figIdx, content |-> "png"]}
             /\ pc' = "pdf_addpage"
             /\ UNCHANGED exc
        ELSE /\ exc' = "write_image"
             /\ pc' = "pdf_except"
             /\ UNCHANGED tmpFiles
    /\ UNCHANGED <<notPdf, figIdx, pages, tmpHandle, stErrors, pdf_bytes>>

\* Line 134: pdf.add_page()
pdf_add_page ==
    /\ pc = "pdf_addpage"
    /\ pages' = Append(pages, [kind |-> "figure", fig |-> Figs[figIdx],
                               image |-> FALSE, text |-> <<>>])
    /\ pc' = "pdf_image"
    /\ UNCHANGED <<notPdf, figIdx, tmpFiles, tmpHandle, exc, stErrors, pdf_bytes>>

\* Line 135: pdf.image(tmp.name, ...) reads the file onto the current page,
\* and may raise.
pdf_image ==
    /\ pc = "pdf_image"
    /\ \E ok \in BOOLEAN :
        IF ok /\ [name |-> figIdx, content |-> "png"] \in tmpFiles
        THEN /\ pages' = [pages EXCEPT ![Len(pages)].image = TRUE]
             /\ pc' = "pdf_finally"
             /\ UNCHANGED exc
        ELSE /\ exc' = "image"
             /\ pc' = "pdf_except"
             /\ UNCHANGED pages
    /\ UNCHANGED <<notPdf, figIdx, tmpFiles, tmpHandle, stErrors, pdf_bytes>>

\* Lines 136-137: except Exception as e: st.error(...)
pdf_except ==
    /\ pc = "pdf_except"
    /\ stErrors' = Append(stErrors, [fig |-> Figs[figIdx], step |-> exc])
    /\ exc' = ""
    /\ pc' = "pdf_finally"
    /\ UNCHANGED <<notPdf, figIdx, pages, tmpFiles, tmpHandle, pdf_bytes>>

\* A finally block that closes the handle and leaves the file behind.
pdf_finally_keep ==
    /\ pc = "pdf_finally"
    /\ tmpHandle' = 0
    /\ figIdx' = figIdx + 1
    /\ pc' = "pdf_loop"
    /\ UNCHANGED <<notPdf, tmpFiles, pages, exc, stErrors, pdf_bytes>>

\* Lines 138-140: finally: tmp.close(); os.remove(tmp.name)
pdf_finally ==
    /\ pc = "pdf_finally"
    /\ tmpHandle' = 0
    /\ tmpFiles' = {f \in tmpFiles : f.name # figIdx}
    /\ figIdx' = figIdx + 1
    /\ pc' = "pdf_loop"
    /\ UNCHANGED <<notPdf, pages, exc, stErrors, pdf_bytes>>

\* Line 141 and 146-147: the document is returned and offered for download.
pdf_return ==
    /\ pc = "pdf_return"
    /\ pdf_bytes' = [some |-> TRUE, pages |-> pages]
    /\ pc' = "forecast"
    /\ UNCHANGED <<notPdf, figIdx, pages, tmpFiles, tmpHandle, exc, stErrors>>

(***************************************************************************)
(* Forecast (lines 150-161)                                                *)
(***************************************************************************)
forecast_block ==
    /\ pc = "forecast"
    /\ IF SKLEARN_AVAILABLE
       THEN /\ pdist' \in UniqueOf(df.rows, "District")
            /\ hist' = ForecastOf(df.rows, filtered, pdist').hist
            /\ forecast' = ForecastOf(df.rows, filtered, pdist').out
            /\ UNCHANGED sidebar
       ELSE /\ sidebar' = Append(sidebar, "install_sklearn")
            /\ UNCHANGED forecastVars
    /\ pc' = "done"
    /\ UNCHANGED <<sessionVars, uploaded_file, uploaded_df, df, filterVars,
                   aggVars, pdfVars>>

(***************************************************************************)
(* The next interaction reruns the script from the top.                    *)
(***************************************************************************)
rerun ==
    /\ pc \in {"done", "crashed"}
    /\ pc' = "upload"
    /\ uploaded_file' = NoFile
    /\ uploaded_df' = None /\ sidebar' = <<>> /\ df' = EmptyFrame
    /\ start' = NoDate /\ end' = NoDate /\ category' = "" /\ districts' = {}
    /\ filtered' = <<>>
    /\ tot' = 0 /\ ucat' = 0 /\ dud' = 0
    /\ fig_ts' = <<>> /\ fig_pie' = {} /\ fig_bar' = {} /\ fig_map' = <<>>
    /\ figIdx' = 0 /\ pages' = <<>> /\ tmpFiles' = {} /\ tmpHandle' = 0
    /\ exc' = "" /\ stErrors' = <<>> /\ pdf_bytes' = NoPdf
    /\ pdist' = "" /\ hist' = <<>> /\ forecast' = NoForecast
    /\ UNCHANGED sessionVars

(***************************************************************************)
(* Specifications                                                          *)
(***************************************************************************)
\* The whole script, over the files of one session.
Init ==
    /\ defaultFile \in DefaultFiles
    /\ cache = None
    /\ SKLEARN_AVAILABLE \in BOOLEAN
    /\ pc = "upload"
    /\ uploaded_file = NoFile
    /\ uploaded_df = None /\ sidebar = <<>> /\ df = EmptyFrame
    /\ FreshFilter /\ FreshAgg /\ FreshPdf /\ FreshForecast

Next ==
    \/ upload_csv \/ select_df
    \/ filter_widgets \/ apply_mask
    \/ metrics \/ time_series \/ pie_chart \/ bar_chart \/ map_chart
    \/ export_button \/ pdf_title \/ pdf_loop \/ pdf_write_image
    \/ pdf_add_page \/ pdf_image \/ pdf_except \/ pdf_finally \/ pdf_return
    \/ forecast_block
    \/ rerun

Spec == Init /\ [][Next]_vars

\* Filtering and aggregation as functions of the frame and the filter
\* criteria: every frame of at most MaxRecords rows.
Frames == UNION {{Frame(rs) : rs \in [1..n -> Rows]} : n \in 0..MaxRecords}

InitFilter ==
    /\ defaultFile = [exists |-> FALSE, frame |-> EmptyFrame]
    /\ cache = None
    /\ SKLEARN_AVAILABLE = TRUE
    /\ pc = "filters"
    /\ df \in Frames
    /\ uploaded_file = [present |-> TRUE, raises |-> FALSE, frame |-> df]
    /\ uploaded_df = Some(df) /\ sidebar = <<"success">>
    /\ FreshFilter /\ FreshAgg /\ FreshPdf /\ FreshForecast

NextFilter ==
    \/ filter_widgets \/ apply_mask
    \/ metrics \/ time_series \/ pie_chart \/ bar_chart \/ map_chart

SpecFilter == InitFilter /\ [][NextFilter]_vars

\* The state a run over the uploaded frame f is in after the charts, with
\* every widget left at its default: the whole date range, "All", every
\* district.
ChartsOfDefaults(f) ==
    /\ uploaded_file = [present |-> TRUE, raises |-> FALSE, frame |-> f]
    /\ uploaded_df = Some(f) /\ sidebar = <<"success">> /\ df = f
    /\ start = DtDate(MinStamp(f.rows)) /\ end = DtDate(MaxStamp(f.rows))
    /\ category = "All" /\ districts = UniqueOf(f.rows, "District")
    /\ filtered = ApplyMask(f.rows, start, end, category, districts)
    /\ tot = Len(filtered)
    /\ ucat = NUnique(filtered, "Crime_Type")
    /\ dud = NUnique(filtered, "District")
    /\ fig_ts = GroupByMonth(filtered)
    /\ fig_pie = ValueCounts(filtered, "Crime_Type")
    /\ fig_bar = GroupSize(filtered, "District")
    /\ fig_map = filtered

\* generate_pdf, from the export button on, over the frames of at most
\* MaxRecords rows.
InitPdf ==
    /\ defaultFile = [exists |-> FALSE, frame |-> EmptyFrame]
    /\ cache = None
    /\ SKLEARN_AVAILABLE = TRUE
    /\ pc = "export"
    /\ \E f \in Frames \ {EmptyFrame} : ChartsOfDefaults(f)
    /\ FreshPdf /\ FreshForecast

NextPdf ==
    \/ export_button \/ pdf_title \/ pdf_loop \/ pdf_write_image
    \/ pdf_add_page \/ pdf_image \/ pdf_except \/ pdf_finally \/ pdf_return

SpecPdf == InitPdf /\ [][NextPdf]_vars

\* The forecast block as a function of the frame: Harare holds 0..MaxCount
\* rows in each of four consecutive months, Bulawayo at most one.
FMonths == <<<<2025, 11>>, <<2025, 12>>, <<2026, 1>>, <<2026, 2>>>>

RECURSIVE Repeat(_, _)
Repeat(r, n) == IF n = 0 THEN <<>> ELSE <<r>> \o Repeat(r, n - 1)

RECURSIVE CellRows(_, _, _)
CellRows(h, b, i) ==
    IF i > Len(FMonths) THEN <<>>
    ELSE Repeat(Row(TS(FMonths[i][1], FMonths[i][2], 1, 0), "Theft", "Harare"), h[i])
         \o Repeat(Row(TS(FMonths[i][1], FMonths[i][2], 1, 0), "Theft", "Bulawayo"), b[i])
         \o CellRows(h, b, i + 1)

ForecastFrames ==
    {Frame(CellRows(h, b, 1)) :
        h \in [1..Len(FMonths) -> 0..MaxCount], b \in [1..Len(FMonths) -> 0..1]}

InitForecast ==
    /\ defaultFile = [exists |-> FALSE, frame |-> EmptyFrame]
    /\ cache = None
    /\ SKLEARN_AVAILABLE \in BOOLEAN
    /\ pc = "forecast"
    /\ \E f \in ForecastFrames \ {EmptyFrame} : ChartsOfDefaults(f)
    /\ FreshPdf /\ FreshForecast

NextForecast == forecast_block

SpecForecast == InitForecast /\ [][NextForecast]_vars

(***************************************************************************)
(* Properties of the filter and the aggregation (SpecFilter)               *)
(***************************************************************************)
Occurrences(rs, r) == Cardinality({i \in 1..Len(rs) : rs[i] = r})

DayNumber(y, m, d) == y * 10000 + m * 100 + d

Filtered == pc \in {"metrics", "ts", "pie", "bar", "map", "export"}

C1_Matches(r) ==
    /\ DayNumber(start[1], start[2], start[3])
         <= DayNumber(r.Date.year, r.Date.month, r.Date.day)
    /\ DayNumber(r.Date.year, r.Date.month, r.Date.day)
         <= DayNumber(end[1], end[2], end[3])
    /\ r.District \in districts
    /\ (category = "All" \/ r.Crime_Type = category)

\* C1: the filtered view holds a record of the dataset exactly when its day
\* lies in [start, end] (both ends included, time of day ignored), its
\* district is selected and its crime type is the chosen category or the
\* category is "All"; matching records are all there, as often as in the
\* dataset, and no other record is.
C1_FilterExact ==
    Filtered =>
        \A r \in Rows :
            Occurrences(filtered, r)
                = IF C1_Matches(r) THEN Occurrences(df.rows, r) ELSE 0

\* A record late on the end day is kept while another record is dropped.
C1_Witness ==
    /\ Filtered
    /\ \E i \in 1..Len(filtered) :
        filtered[i].Date.hour > 0 /\ DtDate(filtered[i].Date) = end
    /\ Len(filtered) < Len(df.rows)

MonthIndex(t) == t.year * 12 + t.month

C2_FirstMonth(rs) ==
    CHOOSE k \in {MonthIndex(rs[i].Date) : i \in 1..Len(rs)} :
        \A i \in 1..Len(rs) : k <= MonthIndex(rs[i].Date)

C2_LastMonth(rs) ==
    CHOOSE k \in {MonthIndex(rs[i].Date) : i \in 1..Len(rs)} :
        \A i \in 1..Len(rs) : k >= MonthIndex(rs[i].Date)

C2_RowsAt(rs, k) == Cardinality({i \in 1..Len(rs) : MonthIndex(rs[i].Date) = k})

\* Whether the series s is the month-by-month count of rs: one entry for each
\* calendar month from the first month of rs to its last, in order, with that
\* month's number of rows (0 for a month without rows), and nothing else.
C2_IsMonthlyCount(s, rs) ==
    IF rs = <<>> THEN s = <<>>
    ELSE /\ Len(s) = C2_LastMonth(rs) - C2_FirstMonth(rs) + 1
         /\ \A k \in 1..Len(s) :
              /\ MonthIndex(s[k].Date) = C2_FirstMonth(rs) + k - 1
              /\ s[k].Count = C2_RowsAt(rs, C2_FirstMonth(rs) + k - 1)

SeriesBuilt == pc \in {"pie", "bar", "map", "export"}

\* C2 as stated: every entry of the monthly series is a month with at least
\* one filtered record; no zero-count entry is synthesized.
C2_NoZeroMonth ==
    SeriesBuilt => \A k \in 1..Len(fig_ts) : fig_ts[k].Count > 0

\* C2 amended: the monthly series has one entry for every calendar month from
\* the earliest to the latest month holding a filtered record, in order; a
\* month in between without records appears with count 0, and no month
\* outside that span appears.
C2_SeriesSpansMonths == SeriesBuilt => C2_IsMonthlyCount(fig_ts, filtered)

\* A month between two months with records is in the series with count 0.
C2_Witness ==
    /\ SeriesBuilt
    /\ \E k \in 2..(Len(fig_ts) - 1) :
        fig_ts[k].Count = 0 /\ fig_ts[k - 1].Count > 0 /\ fig_ts[k + 1].Count > 0

\* C10: when the filtered view is empty, and whenever no district is
\* selected whatever the dates and the category, the aggregation is reached
\* and gives total 0, 0 distinct categories, 0 distinct districts, and empty
\* category breakdown, district breakdown and monthly series.
C10_EmptyAggregates ==
    (pc = "export" /\ (filtered = <<>> \/ districts = {})) =>
        /\ tot = 0 /\ ucat = 0 /\ dud = 0
        /\ fig_ts = <<>> /\ fig_pie = {} /\ fig_bar = {}

\* No district selected, while the dates and the category alone keep a record.
C10_Witness ==
    /\ pc = "export" /\ districts = {}
    /\ \E i \in 1..Len(df.rows) :
        MaskRow_noisin(df.rows[i], start, end, category, districts)
    /\ tot = 0

(***************************************************************************)
(* Properties of the forecast (SpecForecast)                               *)
(***************************************************************************)
Forecasted == pc = "done" /\ SKLEARN_AVAILABLE

\* The calendar months, as month indices, in which district d has a record.
ObservedMonths(rs, d) ==
    {MonthIndex(rs[i].Date) : i \in {j \in 1..Len(rs) : rs[j].District = d}}

\* Number of records of district d in the month of index k.
MonthCount(rs, d, k) ==
    Cardinality({i \in 1..Len(rs) :
                    rs[i].District = d /\ MonthIndex(rs[i].Date) = k})

\* C3: with the regression library available, the forecast of the chosen
\* district is Unavailable when the district has records in fewer than 2
\* distinct calendar months of the full dataset, and is a predicted count
\* when it has records in 2 or more.
C3_UnavailableBelowTwoMonths ==
    Forecasted =>
        /\ Cardinality(ObservedMonths(df.rows, pdist)) < 2
             => forecast = Unavailable
        /\ Cardinality(ObservedMonths(df.rows, pdist)) >= 2
             => forecast.kind = "pred"

\* Several records of the district, all in one month: no prediction.
C3_Witness ==
    /\ Forecasted
    /\ Cardinality(ObservedMonths(df.rows, pdist)) = 1
    /\ Len(DistrictRows(df.rows, pdist)) > 1
    /\ forecast = Unavailable

\* The observed months of the district lie on one line, and the forecast is
\* that line's value one month after the last month of the whole dataset.
C4_OnLine(rs, d) ==
    LET obs == ObservedMonths(rs, d)
        x1 == CHOOSE k \in obs : \A j \in obs : k <= j
        x2 == CHOOSE k \in obs : \A j \in obs : k >= j
        y1 == MonthCount(rs, d, x1)
        y2 == MonthCount(rs, d, x2)
    IN \A k \in obs :
        (MonthCount(rs, d, k) - y1) * (x2 - x1) = (y2 - y1) * (k - x1)

C4_LineValue(rs, d) ==
    LET obs == ObservedMonths(rs, d)
        x1 == CHOOSE k \in obs : \A j \in obs : k <= j
        x2 == CHOOSE k \in obs : \A j \in obs : k >= j
        y1 == MonthCount(rs, d, x1)
        y2 == MonthCount(rs, d, x2)
        M == C2_LastMonth(rs)
    IN <<y1 * (x2 - x1) + (y2 - y1) * (M + 1 - x1), x2 - x1>>

\* District d has a record in every month from its first to its last.
C4_NoGap(rs, d) ==
    LET obs == ObservedMonths(rs, d)
        x1 == CHOOSE k \in obs : \A j \in obs : k <= j
        x2 == CHOOSE k \in obs : \A j \in obs : k >= j
    IN \A k \in x1..x2 : k \in obs

\* C4 as stated: when the district's counts over the months it has records in
\* lie on a line count = a*month_index + b, the forecast is a*(M+1) + b, M
\* being the largest month index of the whole dataset.
C4_LineOverObservedMonths ==
    (Forecasted /\ forecast.kind = "pred" /\ C4_OnLine(df.rows, pdist))
        => RatEq(forecast.pred, C4_LineValue(df.rows, pdist))

\* C4 amended: when the district has a record in every calendar month from
\* its first to its last and those counts lie on a line count =
\* a*month_index + b, the forecast is a*(M+1) + b, M being the largest month
\* index of the whole dataset (not of the district).
C4_LineOverEveryMonth ==
    (Forecasted /\ forecast.kind = "pred" /\ C4_OnLine(df.rows, pdist)
        /\ C4_NoGap(df.rows, pdist))
        => RatEq(forecast.pred, C4_LineValue(df.rows, pdist))

\* Harare counts 1, 2, 3 in three consecutive months while the dataset's last
\* month is a later one: the forecast is for the month after that, 5.
C4_Witness ==
    /\ Forecasted /\ pdist = "Harare"
    /\ hist # <<>>
    /\ [k \in 1..Len(hist) |-> hist[k].Count] = <<1, 2, 3>>
    /\ C2_LastMonth(df.rows) = hist[Len(hist)].Mnum + 1
    /\ forecast.kind = "pred" /\ RatEq(forecast.pred, <<5, 1>>)
    /\ forecast.shown = 5

\* C5 as stated: the fitted (month_index, count) pairs are exactly one pair
\* per calendar month in which the district has a record; no pair belongs to
\* a month without a record of the district.
C5_PairsAreObservedMonths ==
    (Forecasted /\ forecast.kind = "pred") =>
        /\ Len(hist) = Cardinality(ObservedMonths(df.rows, pdist))
        /\ \A k \in 1..Len(hist) :
              /\ hist[k].Mnum \in ObservedMonths(df.rows, pdist)
              /\ hist[k].Count = MonthCount(df.rows, pdist, hist[k].Mnum)

\* C5 amended: the fitted pairs are one pair per calendar month from the
\* district's first month with a record to its last, in order, with
\* month_index = year*12 + month and count = the district's records in that
\* month, which is 0 for a month of that span in which it has none.
C5_PairsSpanMonths ==
    (Forecasted /\ forecast.kind = "pred") =>
        LET obs == ObservedMonths(df.rows, pdist)
            first == CHOOSE k \in obs : \A j \in obs : k <= j
            last == CHOOSE k \in obs : \A j \in obs : k >= j
        IN /\ Len(hist) = last - first + 1
           /\ \A k \in 1..Len(hist) :
                /\ hist[k].Mnum = first + k - 1
                /\ hist[k].Mnum = hist[k].Date.year * 12 + hist[k].Date.month
                /\ hist[k].Count = MonthCount(df.rows, pdist, first + k - 1)

\* A month without a record of the district is among the fitted pairs.
C5_Witness ==
    /\ Forecasted /\ forecast.kind = "pred"
    /\ \E k \in 1..Len(hist) :
        hist[k].Count = 0 /\ hist[k].Mnum \notin ObservedMonths(df.rows, pdist)

(***************************************************************************)
(* Properties of generate_pdf (SpecPdf)                                    *)
(***************************************************************************)
Failed(fig) == \E k \in 1..Len(stErrors) : stErrors[k].fig = fig

\* The pages a report has when each failed figure is skipped: the title page,
\* then one page with its image for every other figure, in the figures' order.
RECURSIVE C6_PagesSkipping(_)
C6_PagesSkipping(i) ==
    IF i > Len(Figs) THEN <<>>
    ELSE (IF Failed(Figs[i]) THEN <<>>
          ELSE <<[kind |-> "figure", fig |-> Figs[i], image |-> TRUE,
                  text |-> <<>>]>>)
         \o C6_PagesSkipping(i + 1)

\* C6: when embedding one figure fails, generate_pdf still returns a
\* document, a warning is displayed, the document has no page for the failed
\* figure and has a page for every other figure, in the figures' order after
\* the title page.
C6_FailedFigureSkipped ==
    (pc = "forecast" /\ Len(stErrors) = 1) =>
        /\ pdf_bytes.some
        /\ pdf_bytes.pages[1].kind = "title"
        /\ Tail(pdf_bytes.pages) = C6_PagesSkipping(1)

InFigure == pc \in {"pdf_write", "pdf_addpage", "pdf_image", "pdf_except", "pdf_finally"}

\* C7: a temporary image file exists only while its own figure is handled:
\* between two figures, and when generate_pdf returns, no temporary file is
\* left and no handle is open, also after a failed write_image.
C7_TmpFilesScoped ==
    /\ \A f \in tmpFiles : InFigure /\ f.name = figIdx
    /\ ~InFigure => tmpHandle = 0

\* generate_pdf has returned after a write_image failure and a successful
\* embedding, and nothing is left on disk.
C7_Witness ==
    /\ pdf_bytes.some /\ tmpFiles = {}
    /\ \E k \in 1..Len(stErrors) : stErrors[k].step = "write_image"
    /\ \E k \in 1..Len(pdf_bytes.pages) : pdf_bytes.pages[k].image

(***************************************************************************)
(* Properties of a whole run (Spec)                                        *)
(***************************************************************************)
Loaded == pc \notin {"upload", "select", "crashed"}

\* The uploader holds a file and read_csv returned it with its Date column
\* parsed into datetimes.
UploadLoaded ==
    /\ uploaded_file.present /\ ~uploaded_file.raises
    /\ uploaded_file.frame.Date_dtype = "datetime64"

\* C8: the frame in use is the uploaded one whenever an upload is supplied
\* and loads; when no upload is supplied, or the upload fails to read or
\* parse, the failure is reported as an error message, the run is not ended
\* by it (only a missing default file ends it), and the frame in use is the
\* one loaded from the default path.
C8_UploadOrFallback ==
    pc # "upload" =>
        /\ (UploadLoaded /\ pc # "select") => df = uploaded_file.frame
        /\ (uploaded_file.present /\ ~UploadLoaded) =>
              /\ \E k \in 1..Len(sidebar) : sidebar[k] = "error_loading"
              /\ pc = "crashed" => ~defaultFile.exists
        /\ (~UploadLoaded /\ Loaded) => df = defaultFile.frame

\* The filter criteria the widgets offer for a frame.
CriteriaOf(rs) ==
    [start : DateChoices(rs), end : DateChoices(rs),
     category : {"All"} \cup UniqueOf(rs, "Crime_Type"),
     districts : SUBSET UniqueOf(rs, "District")]

\* C9: for the frame in use and the district chosen for the forecast, the
\* forecast outcome is the same under every choice of filter criteria: the
\* outcome of the run equals the outcome under any other date range, category
\* and district selection.
C9_ForecastIgnoresFilter ==
    Forecasted =>
        \A c \in CriteriaOf(df.rows) :
            ForecastOf(df.rows,
                       ApplyMask(df.rows, c.start, c.end, c.category, c.districts),
                       pdist).out = forecast

\* A prediction was produced in a run whose filter kept no record at all.
C9_Witness ==
    /\ Forecasted /\ forecast.kind = "pred"
    /\ filtered = <<>> /\ Len(df.rows) > 1

====
